---- MODULE Spec2Model ----
(***************************************************************************)
(* get_amm: the batch transform that downloads the e-phy usage table,      *)
(* keeps the usages allowed in organic viticulture and lays the retained   *)
(* products out in five category blocks (cuivre, soufre, insecticide,      *)
(* pheromones, others).                                                    *)
(*                                                                         *)
(* Two revisions are modelled: the pandas pipeline of                      *)
(* src/demo/get_amm.py (get_amm and the create_df_* builders) and the      *)
(* line-oriented exporter at the end of src/get_amm.py.                    *)
(*                                                                         *)
(* Representation.                                                         *)
(*   - A cell of a table is NaN (the empty tuple) or a one-element tuple   *)
(*     holding a string, a decimal number or an integer.                   *)
(*   - A decimal number is [m |-> mantissa, e |-> decimals], the value     *)
(*     m * 10^-e, kept normalised (no trailing zero in m while e > 0).     *)
(*   - A row is a function from column names to cells; a DataFrame is      *)
(*     [columns, index, data].                                             *)
(***************************************************************************)
EXTENDS Integers, Sequences, FiniteSets, TLC

VARIABLES
    pc,                     \* position of the run of get_amm
    page,                   \* hrefs of the anchors of the catalogue page
    amm_url,                \* get_url's result
    df_amm,                 \* the table read from the archive
    df,                     \* df_bio_vigne_main_authorised (and its enriched forms)
    blocks,                 \* the five frames built by combine_products
    df_combined_products,   \* combine_products' result
    csv,                    \* the written output file (NaN while not written)
    error,                  \* the exception that ended the run ("" when none)
    value,                  \* process_concentration: its argument
    concentration,          \* process_concentration: its result
    lecture,                \* legacy exporter: the lines of fichier_bio
    li,                     \* legacy exporter: number of lines consumed
    intrants,               \* legacy exporter: lines of fichiers_intrants
    lists,                  \* legacy exporter: list_cuivre .. list_biocontrole
    intrants_final,         \* legacy exporter: lines of intrants_final.csv
    argument,               \* a function called alone: the frame it was given
    previous,               \* combine_products called twice: the first call's outcome
    pandas                  \* what the installed build of pandas does where builds differ

vars ==
    <<pc, page, amm_url, df_amm, df, blocks, df_combined_products, csv, error,
      value, concentration, lecture, li, intrants, lists, intrants_final,
      argument, previous, pandas>>

----------------------------------------------------------------------------
(* Cells *)

NaN == <<>>

S(s) == <<s>>

isna(cell) == cell = NaN

Range(f) == {f[i] : i \in DOMAIN f}

----------------------------------------------------------------------------
(* Python strings *)

Char(s, i) == SubSeq(s, i, i)

UpperLetters == "ABCDEFGHIJKLMNOPQRSTUVWXYZÉÔ"

LowerLetters == "abcdefghijklmnopqrstuvwxyzéô"

LowerChar(c) ==
    IF \E i \in 1..Len(UpperLetters) : Char(UpperLetters, i) = c
    THEN LET i == CHOOSE i \in 1..Len(UpperLetters) : Char(UpperLetters, i) = c
         IN  Char(LowerLetters, i)
    ELSE c

\* s.lower(), by halves
RECURSIVE lower(_)
lower(s) ==
    IF Len(s) = 0 THEN ""
    ELSE IF Len(s) = 1 THEN LowerChar(s)
    ELSE LET h == Len(s) \div 2
         IN  lower(SubSeq(s, 1, h)) \o lower(SubSeq(s, h + 1, Len(s)))

\* sub in s
In(sub, s) ==
    \E i \in 1..(Len(s) - Len(sub) + 1) : SubSeq(s, i, i + Len(sub) - 1) = sub

\* s.find(sub) + 1: the position of the first occurrence, 0 when there is none
Find(sub, s) ==
    IF In(sub, s)
    THEN CHOOSE i \in 1..(Len(s) - Len(sub) + 1) :
            /\ SubSeq(s, i, i + Len(sub) - 1) = sub
            /\ \A j \in 1..(i - 1) : SubSeq(s, j, j + Len(sub) - 1) # sub
    ELSE 0

\* s.split(sep), sep not empty
RECURSIVE split(_, _)
split(s, sep) ==
    LET i == Find(sep, s)
    IN  IF i = 0 THEN <<s>>
        ELSE <<SubSeq(s, 1, i - 1)>> \o split(SubSeq(s, i + Len(sep), Len(s)), sep)

\* sep.join(parts)
RECURSIVE join(_, _)
join(sep, parts) ==
    IF Len(parts) = 0 THEN ""
    ELSE IF Len(parts) = 1 THEN parts[1]
    ELSE parts[1] \o sep \o join(sep, Tail(parts))

\* s.replace(old, new), old not empty
RECURSIVE replace(_, _, _)
replace(s, old, new) ==
    LET i == Find(old, s)
    IN  IF i = 0 THEN s
        ELSE SubSeq(s, 1, i - 1) \o new
             \o replace(SubSeq(s, i + Len(old), Len(s)), old, new)

\* s.strip(): blanks removed at both ends
RECURSIVE strip(_)
strip(s) ==
    IF Len(s) = 0 THEN s
    ELSE IF Char(s, 1) = " " THEN strip(Tail(s))
    ELSE IF Char(s, Len(s)) = " " THEN strip(SubSeq(s, 1, Len(s) - 1))
    ELSE s

DecimalDigits == "0123456789"

\* str.isdigit(): the decimal digits and the other digit characters of
\* Unicode, of which the superscript two stands here
IsDigit(c) == In(c, DecimalDigits) \/ c = "²"

----------------------------------------------------------------------------
(* Regular expressions as pandas' str.contains uses them (regex=True):      *)
(* '|' separates alternatives, '.' matches any character, every other       *)
(* character of the patterns of this program matches itself.                *)

ReMatchAt(alt, s, i) ==
    /\ i + Len(alt) - 1 <= Len(s)
    /\ \A k \in 1..Len(alt) :
          Char(alt, k) = "." \/ Char(alt, k) = Char(s, i + k - 1)

ReSearch(pat, s) ==
    \E a \in Range(split(pat, "|")) : \E i \in 1..(Len(s) + 1) : ReMatchAt(a, s, i)

\* Series.str.contains(pat, case=case, na=na), for one cell
str_contains(cell, pat, case, na) ==
    IF isna(cell) THEN na
    ELSE IF case THEN ReSearch(pat, cell[1])
    ELSE ReSearch(lower(pat), lower(cell[1]))

----------------------------------------------------------------------------
(* Floating-point numbers, as exact decimals *)

RECURSIVE Pow10(_)
Pow10(k) == IF k = 0 THEN 1 ELSE 10 * Pow10(k - 1)

RECURSIVE Dec(_, _)
Dec(m, e) == IF e > 0 /\ m % 10 = 0 THEN Dec(m \div 10, e - 1) ELSE [m |-> m, e |-> e]

\* int(s) / float(s) of a string of decimal digits
RECURSIVE DigitsValue(_)
DigitsValue(s) ==
    IF Len(s) = 0 THEN 0
    ELSE 10 * DigitsValue(SubSeq(s, 1, Len(s) - 1))
         + (Find(Char(s, Len(s)), DecimalDigits) - 1)

\* a / 10^k
DivPow10(a, k) == Dec(a.m, a.e + k)

Mul(a, b) == Dec(a.m * b.m, a.e + b.e)

\* round(a, k): to the nearest multiple of 10^-k, a tie to the even one
Round(a, k) ==
    IF a.e <= k THEN a
    ELSE LET p == Pow10(a.e - k)
             q == a.m \div p
             r == a.m % p
         IN  IF 2 * r > p \/ (2 * r = p /\ q % 2 = 1)
             THEN Dec(q + 1, k) ELSE Dec(q, k)

\* the same three, NaN propagating, on cells
FDiv(cell, k) == IF isna(cell) THEN NaN ELSE <<DivPow10(cell[1], k)>>

FMul(c1, c2) == IF isna(c1) \/ isna(c2) THEN NaN ELSE <<Mul(c1[1], c2[1])>>

FRound(cell, k) == IF isna(cell) THEN NaN ELSE <<Round(cell[1], k)>>

----------------------------------------------------------------------------
(* process_concentration *)

\* "".join([char for char in value if char.isdigit()])
RECURSIVE digit_chars(_)
digit_chars(s) ==
    IF Len(s) = 0 THEN ""
    ELSE (IF IsDigit(Char(s, 1)) THEN Char(s, 1) ELSE "") \o digit_chars(Tail(s))

\* re.sub(r"[^0-9.]", "", input_string)
RECURSIVE remove_non_numbers(_)
remove_non_numbers(input_string) ==
    IF Len(input_string) = 0 THEN ""
    ELSE (IF In(Char(input_string, 1), DecimalDigits) \/ Char(input_string, 1) = "."
          THEN Char(input_string, 1) ELSE "")
         \o remove_non_numbers(Tail(input_string))

\* float(s) succeeds: here s holds decimal digits and points only
FloatOk(s) ==
    /\ Len(s) > 0
    /\ \A i \in 1..Len(s) : In(Char(s, i), DecimalDigits)

\* process_concentration with the percent case divided like the others
process_concentration_percent_by_100(v) ==
    IF isna(v) THEN NaN
    ELSE
    LET clean_concentration_number == remove_non_numbers(digit_chars(v[1]))
        number == Dec(DigitsValue(clean_concentration_number), 0)
    IN  IF ~FloatOk(clean_concentration_number) THEN NaN
        ELSE <<Round(DivPow10(number, 2), 2)>>

\* process_concentration reading the text as a decimal number, its point kept
process_concentration_with_point(v) ==
    IF isna(v) THEN NaN
    ELSE
    LET kept == remove_non_numbers(v[1])
        point == Find(".", kept)
        digits == replace(kept, ".", "")
        number == Dec(DigitsValue(digits), IF point = 0 THEN 0 ELSE Len(kept) - point)
    IN  IF ~FloatOk(digits) \/ Len(kept) > Len(digits) + 1 THEN NaN
        ELSE IF In("%", v[1]) THEN <<Round(DivPow10(number, 1), 2)>>
        ELSE <<Round(DivPow10(number, 2), 2)>>

process_concentration(v) ==
    IF isna(v) THEN NaN                     \* iterating a float raises: except
    ELSE
    LET concentration_number == digit_chars(v[1])
        clean_concentration_number == remove_non_numbers(concentration_number)
        number == Dec(DigitsValue(clean_concentration_number), 0)
    IN  IF ~FloatOk(clean_concentration_number) THEN NaN    \* ValueError: except
        ELSE IF In("%", v[1]) THEN <<Round(DivPow10(number, 1), 2)>>
        ELSE IF In(" g/", v[1]) THEN <<Round(DivPow10(number, 2), 2)>>
        ELSE <<Round(DivPow10(number, 2), 2)>>

----------------------------------------------------------------------------
(* DataFrames *)

\* the positions of a set of integers, ascending
RECURSIVE Ascending(_)
Ascending(ps) ==
    IF ps = {} THEN <<>>
    ELSE LET lo == CHOOSE x \in ps : \A y \in ps : x <= y
         IN  <<lo>> \o Ascending(ps \ {lo})

\* df.iloc[positions]
Take(frame, positions) ==
    [frame EXCEPT !.index = [k \in 1..Len(positions) |-> frame.index[positions[k]]],
                  !.data = [k \in 1..Len(positions) |-> frame.data[positions[k]]]]

\* df[mask] with the rows kept in reverse order
BooleanMask_reversed(frame, mask) ==
    LET ps == Ascending({i \in DOMAIN frame.data : mask[i]})
    IN  Take(frame, [k \in 1..Len(ps) |-> ps[Len(ps) + 1 - k]])

\* df[mask], mask a series of booleans: the rows kept stay in the frame's order
BooleanMask(frame, mask) ==
    Take(frame, Ascending({i \in DOMAIN frame.data : mask[i]}))

\* df.reset_index() of the frame with its rows in reverse order
reset_index_reversed(frame) ==
    LET n == Len(frame.data)
    IN  [frame EXCEPT
            !.columns = <<"index">> \o frame.columns,
            !.index = [k \in 1..n |-> k - 1],
            !.data = [k \in 1..n |->
                        ("index" :> <<frame.index[n + 1 - k]>>) @@ frame.data[n + 1 - k]]]

\* df.reset_index() with the old index thrown away
reset_index_discarding(frame) ==
    [frame EXCEPT !.index = [k \in 1..Len(frame.data) |-> k - 1]]

\* RangeIndex(n)
RangeIndex(n) == [k \in 1..n |-> k - 1]

\* df.reset_index(drop=True)
reset_index_drop(frame) == [frame EXCEPT !.index = RangeIndex(Len(frame.data))]

\* df.reset_index(): the old index becomes the first column, named "index"
reset_index(frame) ==
    [frame EXCEPT
        !.columns = <<"index">> \o frame.columns,
        !.index = RangeIndex(Len(frame.data)),
        !.data = [k \in 1..Len(frame.data) |->
                    ("index" :> <<frame.index[k]>>) @@ frame.data[k]]]

\* df[col] = series (a new column goes last, an existing one keeps its place)
SetColumn(frame, col, series, isObject) ==
    [frame EXCEPT
        !.columns = IF col \in Range(frame.columns) THEN frame.columns
                    ELSE Append(frame.columns, col),
        !.object = IF isObject THEN frame.object \cup {col} ELSE frame.object \ {col},
        !.data = [k \in 1..Len(frame.data) |->
                    (col :> series[k]) @@ frame.data[k]]]

\* df[[c1, c2, ...]]
Project(frame, cols) ==
    [frame EXCEPT
        !.columns = cols,
        !.object = frame.object \cap Range(cols),
        !.data = [k \in 1..Len(frame.data) |->
                    [c \in Range(cols) |-> frame.data[k][c]]]]

\* the .str accessor of a column raises AttributeError unless the column
\* holds strings (dtype object)
StrAccessorOk(frame, col) == col \in frame.object

----------------------------------------------------------------------------
(* clean_df_amm *)

exclude_usages ==
    << "Thrips", "Black rot", "Bactérioses", "Excoriose", "Erinose",
       "Cochenilles", "Aleurodes", "Pourriture grise", "Mouches",
       "Stad. Hivern. Ravageurs", "lack dead arm", "Esca",
       "Chenilles phytophages", "Eutypiose", "Acariens" >>

IsBio(row) ==
    str_contains(row["mentions autorisees"],
                 "agriculture biologique|production biologique", FALSE, FALSE)

IsVigne(row) == str_contains(row["identifiant usage"], "vigne", FALSE, FALSE)

IsExcludedUsage(row) ==
    str_contains(row["mentions autorisees"], join("|", exclude_usages), FALSE, FALSE)

IsAuthorised(row) == str_contains(row["etat usage"], "Autorisé", TRUE, FALSE)

clean_df_amm_raises(frame) ==
    \/ ~StrAccessorOk(frame, "mentions autorisees")
    \/ ~StrAccessorOk(frame, "identifiant usage")
    \/ ~StrAccessorOk(frame, "etat usage")

clean_df_amm(frame) ==
    LET df_bio == BooleanMask(frame,
            [k \in DOMAIN frame.data |-> IsBio(frame.data[k])])
        df_bio_vigne == BooleanMask(df_bio,
            [k \in DOMAIN df_bio.data |-> IsVigne(df_bio.data[k])])
        df_bio_vigne_main ==
            BooleanMask(df_bio_vigne,
                        [k \in DOMAIN df_bio_vigne.data |->
                            ~IsExcludedUsage(df_bio_vigne.data[k])])
        df_bio_vigne_main_authorised == BooleanMask(df_bio_vigne_main,
            [k \in DOMAIN df_bio_vigne_main.data |-> IsAuthorised(df_bio_vigne_main.data[k])])
    IN  reset_index(df_bio_vigne_main_authorised)

----------------------------------------------------------------------------
(* add_others, get_active_compound *)

\* merge_columns with the two tokens in the other order
merge_columns_jardin_first(row) ==
    LET r1 == IF ~isna(row["gamme usage"]) /\ In("jardin", row["gamme usage"][1])
              THEN "Jardin autorisé" ELSE ""
        r2 == IF ~isna(row["condition emploi"])
                 /\ In("badigeon", row["condition emploi"][1])
              THEN r1 \o (IF Len(r1) > 0 THEN "|" ELSE "") \o "badigeon"
              ELSE r1
    IN  S(r2)

merge_columns(row) ==
    LET r1 == IF ~isna(row["condition emploi"])
                 /\ In("badigeon", row["condition emploi"][1])
              THEN "badigeon" ELSE ""
        r2 == IF ~isna(row["gamme usage"]) /\ In("jardin", row["gamme usage"][1])
              THEN r1 \o (IF Len(r1) > 0 THEN "|" ELSE "") \o "Jardin autorisé"
              ELSE r1
    IN  S(r2)

add_others(frame) == SetColumn(frame, "Autres",
            [k \in DOMAIN frame.data |-> merge_columns(frame.data[k])], TRUE)

\* Series.str.split(sep).str[n], for one cell (n counted from 0)
str_split_get(cell, sep, n) ==
    IF isna(cell) THEN NaN
    ELSE LET parts == split(cell[1], sep)
         IN  IF n + 1 <= Len(parts) THEN S(parts[n + 1]) ELSE NaN

get_active_compound_raises(frame) == ~StrAccessorOk(frame, "Substances actives")

\* get_active_compound with the name stripped of its blanks
get_active_compound_stripped(frame) ==
    SetColumn(frame, "Active Compound",
              [k \in DOMAIN frame.data |->
                  LET name == str_split_get(frame.data[k]["Substances actives"], "(", 0)
                  IN  IF isna(name) THEN NaN ELSE S(strip(name[1]))], TRUE)

get_active_compound(frame) ==
    SetColumn(frame, "Active Compound",
              [k \in DOMAIN frame.data |->
                  str_split_get(frame.data[k]["Substances actives"], "(", 0)], TRUE)

----------------------------------------------------------------------------
(* make_second_names_main *)

\* the rows the inner loop appends to df_second_name for one row
second_rows(row) ==
    LET second_names_raw == row["seconds noms commerciaux"]
    IN  IF isna(second_names_raw) THEN <<>>
        ELSE LET second_names_list == split(second_names_raw[1], "|")
             IN  [n \in 1..Len(second_names_list) |->
                    [row EXCEPT !["nom produit"] = S(strip(second_names_list[n]))]]

\* df_second_name after the rows data[1..n] have been iterated
RECURSIVE df_second_name(_, _)
df_second_name(data, n) ==
    IF n = 0 THEN <<>> ELSE df_second_name(data, n - 1) \o second_rows(data[n])

\* make_second_names_main keeping only the rows made from second names
make_second_names_main_only_seconds(frame) ==
    LET seconds == df_second_name(frame.data, Len(frame.data))
    IN  [frame EXCEPT !.index = RangeIndex(Len(seconds)), !.data = seconds]

\* pd.concat([df, df_second_name], ignore_index=True); the columns of
\* df_second_name have dtype object, and so has every column of the result
\* once df_second_name has a row
make_second_names_main(frame) ==
    LET seconds == df_second_name(frame.data, Len(frame.data))
    IN  [frame EXCEPT
            !.index = RangeIndex(Len(frame.data) + Len(seconds)),
            !.object = IF Len(seconds) = 0 THEN frame.object ELSE Range(frame.columns),
            !.data = frame.data \o seconds]

----------------------------------------------------------------------------
(* The category builders.  Each create_df_* is given as the frame it        *)
(* returns and, apart, the exception it raises ("" when it raises none).    *)
(*                                                                          *)
(* empty_mask_is_labels: whether the build of pandas reads an empty mask    *)
(* of dtype object (what Series.apply returns on an empty Series) as an     *)
(* empty list of column labels; the frame selected then has no column and   *)
(* the next access to one of its columns raises KeyError.                   *)

\* 1 if "biocontrôle" in x.lower() else 0
biocontrole_flag(row) ==
    IF In("biocontrôle", lower(row["mentions autorisees"][1])) THEN <<1>> ELSE <<0>>

\* df["Substances actives"].str.split(")").str[1], then process_concentration
Concentration(row) ==
    process_concentration(str_split_get(row["Substances actives"], ")", 1))

\* the dose without the division of the concentration by 100
Dose_of_percent(concentration_cell, row, digits) ==
    FRound(FMul(concentration_cell, row["dose retenue"]), digits)

\* ((Concentration / 100) * dose retenue).astype(float).round(digits)
Dose(concentration_cell, row, digits) ==
    FRound(FMul(FDiv(concentration_cell, 2), row["dose retenue"]), digits)

AnyNa(frame, col) == \E k \in 1..Len(frame.data) : isna(frame.data[k][col])

IsCuivre(row) == str_contains(row["Active Compound"], "cuivre", FALSE, FALSE)

create_df_cuivre_raises(frame) ==
    IF ~StrAccessorOk(frame, "Active Compound")
       \/ ~StrAccessorOk(frame, "Substances actives")
    THEN "AttributeError" ELSE ""

create_df_cuivre(frame) ==
    LET df_cuivre == reset_index_drop(BooleanMask(frame,
            [k \in DOMAIN frame.data |-> IsCuivre(frame.data[k])]))
        c1 == SetColumn(df_cuivre, "Concentration",
            [k \in DOMAIN df_cuivre.data |-> Concentration(df_cuivre.data[k])], FALSE)
        c2 == SetColumn(c1, "Dose",
            [k \in DOMAIN c1.data |-> Dose(c1.data[k]["Concentration"], c1.data[k], 1)], FALSE)
    IN  Project(c2, << "nom produit", "Active Compound", "Autres", "Concentration",
                       "dose retenue", "Dose", "nombre max d'application" >>)

IsSoufre(row) == str_contains(row["Active Compound"], "soufre|sulphur", FALSE, FALSE)

create_df_soufre_raises(frame) ==
    IF ~StrAccessorOk(frame, "Active Compound")
       \/ ~StrAccessorOk(frame, "Substances actives")
    THEN "AttributeError"
    ELSE IF AnyNa(BooleanMask(frame,
            [k \in DOMAIN frame.data |-> IsSoufre(frame.data[k])]), "mentions autorisees")
    THEN "AttributeError"
    ELSE ""

\* create_df_soufre keeping the column Concentration, as create_df_cuivre does
create_df_soufre_with_concentration(frame) ==
    LET df_soufre == reset_index_drop(BooleanMask(frame,
            [k \in DOMAIN frame.data |-> IsSoufre(frame.data[k])]))
        c1 == SetColumn(df_soufre, "Concentration",
            [k \in DOMAIN df_soufre.data |-> Concentration(df_soufre.data[k])], FALSE)
        c2 == SetColumn(c1, "Dose",
            [k \in DOMAIN c1.data |-> Dose(c1.data[k]["Concentration"], c1.data[k], 1)], FALSE)
        c3 == SetColumn(c2, "Biocontrôle (1/0)",
            [k \in DOMAIN c2.data |-> biocontrole_flag(c2.data[k])], FALSE)
    IN  Project(c3, << "nom produit", "Active Compound", "Autres", "Concentration",
                       "dose retenue", "Dose", "Biocontrôle (1/0)",
                       "nombre max d'application" >>)

create_df_soufre(frame) ==
    LET df_soufre == reset_index_drop(BooleanMask(frame,
            [k \in DOMAIN frame.data |-> IsSoufre(frame.data[k])]))
        c1 == SetColumn(df_soufre, "Concentration",
            [k \in DOMAIN df_soufre.data |-> Concentration(df_soufre.data[k])], FALSE)
        c2 == SetColumn(c1, "Dose",
            [k \in DOMAIN c1.data |-> Dose(c1.data[k]["Concentration"], c1.data[k], 1)], FALSE)
        c3 == SetColumn(c2, "Biocontrôle (1/0)",
            [k \in DOMAIN c2.data |-> biocontrole_flag(c2.data[k])], FALSE)
    IN  Project(c3, << "nom produit", "Active Compound", "Autres", "dose retenue",
                       "Dose", "Biocontrôle (1/0)", "nombre max d'application" >>)

substances_to_include == << "Spinosad", "Bacillus", "pyréthrines" >>

HasInsecticideFunction(row) ==
    str_contains(row["fonctions"], "insecticide", FALSE, FALSE)

\* any(sub in x for sub in substances_to_include)
HasIncludedSubstance(row) ==
    \E sub \in Range(substances_to_include) : In(sub, row["Substances actives"][1])

IsInsecticide(row) == HasInsecticideFunction(row) /\ HasIncludedSubstance(row)

create_df_insecticide_raises(frame, empty_mask_is_labels) ==
    IF ~StrAccessorOk(frame, "fonctions") THEN "AttributeError"
    ELSE LET stage1 == BooleanMask(frame,
            [k \in DOMAIN frame.data |-> HasInsecticideFunction(frame.data[k])])
         IN  IF AnyNa(stage1, "Substances actives") THEN "TypeError"
             ELSE IF Len(stage1.data) = 0 /\ empty_mask_is_labels THEN "KeyError"
             ELSE IF ~StrAccessorOk(frame, "Substances actives") THEN "AttributeError"
             ELSE IF AnyNa(BooleanMask(stage1,
            [k \in DOMAIN stage1.data |-> HasIncludedSubstance(stage1.data[k])]),
                           "mentions autorisees")
             THEN "AttributeError"
             ELSE ""

\* the concentration as parsed, Bacillus or not
InsecticideConcentration_as_parsed(row) == Concentration(row)

\* Concentration, after the rows of Bacillus are set to 0
InsecticideConcentration(row) ==
    IF str_contains(row["Substances actives"], "Bacillus", FALSE, FALSE)
    THEN <<Dec(0, 0)>>
    ELSE Concentration(row)

create_df_insecticide(frame) ==
    LET stage1 == reset_index_drop(BooleanMask(frame,
            [k \in DOMAIN frame.data |-> HasInsecticideFunction(frame.data[k])]))
        df_insecticide == reset_index_drop(BooleanMask(stage1,
            [k \in DOMAIN stage1.data |-> HasIncludedSubstance(stage1.data[k])]))
        c1 == SetColumn(df_insecticide, "Concentration",
            [k \in DOMAIN df_insecticide.data |-> InsecticideConcentration(df_insecticide.data[k])], FALSE)
        c2 == SetColumn(c1, "Dose",
            [k \in DOMAIN c1.data |-> Dose(c1.data[k]["Concentration"], c1.data[k], 3)], FALSE)
        c3 == SetColumn(c2, "Biocontrôle (1/0)",
            [k \in DOMAIN c2.data |-> biocontrole_flag(c2.data[k])], FALSE)
    IN  Project(c3, << "nom produit", "Active Compound", "Autres", "dose retenue",
                       "Dose", "Biocontrôle (1/0)", "nombre max d'application" >>)

IsPheromone(row) == str_contains(row["Substances actives"], "pheromones", FALSE, FALSE)

\* Series.str.replace(pat, ""), for one string: pat is a regular expression
\* when regex (the default before pandas 2.0), where the parentheses of pat
\* group and match nothing; a literal otherwise
str_replace_pheromones(s, regex) ==
    IF regex THEN replace(s, "Straight Chain Lepidopteran Pheromones", "")
    ELSE replace(s, "(Straight Chain Lepidopteran Pheromones)", "")

\* Series.replace("|", "+"): a cell is replaced when it equals "|"
series_replace(cell, to_replace, val) ==
    IF ~isna(cell) /\ cell[1] = to_replace THEN S(val) ELSE cell

create_df_pheromones_raises(frame) ==
    IF ~StrAccessorOk(frame, "Substances actives") THEN "AttributeError"
    ELSE IF AnyNa(BooleanMask(frame,
            [k \in DOMAIN frame.data |-> IsPheromone(frame.data[k])]), "mentions autorisees")
    THEN "AttributeError"
    ELSE ""

create_df_pheromones(frame, regex) ==
    LET df_pheromones == reset_index_drop(BooleanMask(frame,
            [k \in DOMAIN frame.data |-> IsPheromone(frame.data[k])]))
        c1 == SetColumn(df_pheromones, "Active Compound",
                [k \in DOMAIN df_pheromones.data |->
                    series_replace(
                        S(str_replace_pheromones(
                            df_pheromones.data[k]["Substances actives"][1], regex)),
                        "|", "+")],
                TRUE)
        c2 == SetColumn(c1, "Biocontrôle (1/0)",
            [k \in DOMAIN c1.data |-> biocontrole_flag(c1.data[k])], FALSE)
    IN  Project(c2, << "nom produit", "Active Compound", "Biocontrôle (1/0)" >>)

substances_to_exclude ==
    << "Spinosad", "Bacillus", "pyréthrines", "soufre", "Sulphur", "cuivre",
       "pheromones" >>

\* not any(sub.lower() in x.lower() for sub in substances_to_exclude)
IsOther(row) ==
    ~\E sub \in Range(substances_to_exclude) :
        In(lower(sub), lower(row["Substances actives"][1]))

create_df_others_raises(frame, empty_mask_is_labels) ==
    IF AnyNa(frame, "Substances actives") THEN "AttributeError"
    ELSE IF Len(frame.data) = 0 /\ empty_mask_is_labels THEN "KeyError"
    ELSE IF ~StrAccessorOk(frame, "Substances actives") THEN "AttributeError"
    ELSE LET df_others == BooleanMask(frame,
            [k \in DOMAIN frame.data |-> IsOther(frame.data[k])])
         IN  IF AnyNa(df_others, "fonctions") \/ AnyNa(df_others, "mentions autorisees")
             THEN "AttributeError"
             ELSE ""

\* 1 if "insecticide" in x.lower() else 0
insecticide_flag(row) ==
    IF In("insecticide", lower(row["fonctions"][1])) THEN <<1>> ELSE <<0>>

create_df_others(frame) ==
    LET df_others == reset_index_drop(BooleanMask(frame,
            [k \in DOMAIN frame.data |-> IsOther(frame.data[k])]))
        c1 == SetColumn(df_others, "Concentration",
            [k \in DOMAIN df_others.data |-> Concentration(df_others.data[k])], FALSE)
        c2 == SetColumn(c1, "Dose",
            [k \in DOMAIN c1.data |-> Dose(c1.data[k]["Concentration"], c1.data[k], 1)], FALSE)
        c3 == SetColumn(c2, "Insecticide",
            [k \in DOMAIN c2.data |-> insecticide_flag(c2.data[k])], FALSE)
        c4 == SetColumn(c3, "Biocontrôle (1/0)",
            [k \in DOMAIN c3.data |-> biocontrole_flag(c3.data[k])], FALSE)
    IN  Project(c4, << "nom produit", "Active Compound", "Autres", "dose retenue",
                       "Dose", "Insecticide", "Biocontrôle (1/0)",
                       "nombre max d'application" >>)

----------------------------------------------------------------------------
(* combine_products *)

column_mapping ==
    ("nom produit" :> "Spécialité commerciale")
    @@ ("Active Compound" :> "Matière active (M.A.)")
    @@ ("Autres" :> "Autre")
    @@ ("Concentration" :> "Concentration en M.A. (% )")
    @@ ("dose retenue" :> "Dose d'homologation (en kg ou L / ha)")
    @@ ("Dose" :> "Dose d'homologation (en kg ou L / ha)")
    @@ ("nombre max d'application" :> "Nombre de traitements autorisés")
    @@ ("Biocontrôle (1/0)" :> "New Biocontrol Column")

\* df.rename(columns=mapping): two columns may get one name, so the rows of
\* the renamed frame are kept by position
rename_columns(frame) ==
    [columns |-> [j \in 1..Len(frame.columns) |->
                    IF frame.columns[j] \in DOMAIN column_mapping
                    THEN column_mapping[frame.columns[j]] ELSE frame.columns[j]],
     index |-> frame.index,
     data |-> [k \in 1..Len(frame.data) |->
                 [j \in 1..Len(frame.columns) |-> frame.data[k][frame.columns[j]]]]]

Max(a, b) == IF a >= b THEN a ELSE b

\* the cells of the row labelled label, NaN in every column when the frame
\* has no such row
RowAt(frame, label) ==
    IF \E k \in 1..Len(frame.index) : frame.index[k] = label
    THEN frame.data[CHOOSE k \in 1..Len(frame.index) : frame.index[k] = label]
    ELSE [j \in 1..Len(frame.columns) |-> NaN]

\* pd.concat([f1, f2, f3, f4, f5], axis=1) of frames indexed 0..n-1
concat_axis1(f1, f2, f3, f4, f5) ==
    LET n == Max(Len(f1.data), Max(Len(f2.data), Max(Len(f3.data),
                 Max(Len(f4.data), Len(f5.data)))))
    IN  [columns |-> f1.columns \o f2.columns \o f3.columns \o f4.columns \o f5.columns,
         index |-> RangeIndex(n),
         data |-> [i \in 1..n |->
                     RowAt(f1, i - 1) \o RowAt(f2, i - 1) \o RowAt(f3, i - 1)
                     \o RowAt(f4, i - 1) \o RowAt(f5, i - 1)]]

combine_products_raises(frame, empty_mask_is_labels) ==
    IF create_df_cuivre_raises(frame) # "" THEN create_df_cuivre_raises(frame)
    ELSE IF create_df_soufre_raises(frame) # "" THEN create_df_soufre_raises(frame)
    ELSE IF create_df_insecticide_raises(frame, empty_mask_is_labels) # ""
    THEN create_df_insecticide_raises(frame, empty_mask_is_labels)
    ELSE IF create_df_pheromones_raises(frame) # ""
    THEN create_df_pheromones_raises(frame)
    ELSE create_df_others_raises(frame, empty_mask_is_labels)

\* the five frames, each builder appending to the rows it produced before
category_blocks_accumulating(frame, regex) ==
    LET fresh == [df_cuivre |-> create_df_cuivre(frame),
                  df_soufre |-> create_df_soufre(frame),
                  df_insecticide |-> create_df_insecticide(frame),
                  df_pheromones |-> create_df_pheromones(frame, regex),
                  df_others |-> create_df_others(frame)]
    IN  [b \in DOMAIN fresh |->
            [fresh[b] EXCEPT
                !.data = blocks[b].data \o fresh[b].data,
                !.index = RangeIndex(Len(blocks[b].data) + Len(fresh[b].data))]]

\* the five frames combine_products builds, before they are renamed
category_blocks(frame, regex) ==
    [df_cuivre |-> create_df_cuivre(frame),
     df_soufre |-> create_df_soufre(frame),
     df_insecticide |-> create_df_insecticide(frame),
     df_pheromones |-> create_df_pheromones(frame, regex),
     df_others |-> create_df_others(frame)]

combine_products(b) ==
    concat_axis1(rename_columns(b.df_cuivre), rename_columns(b.df_soufre),
                 rename_columns(b.df_insecticide), rename_columns(b.df_pheromones),
                 rename_columns(b.df_others))

\* df.to_csv(file_name, sep=";", index=False): the header, then the rows
to_csv(frame) == <<frame.columns>> \o frame.data

----------------------------------------------------------------------------
(* get_url, download_and_extract_dataframe *)

\* the href of the first anchor whose href holds "-utf8.zip"; NaN stands for
\* an anchor without href, for which tag.get("href") is None
has_utf8_zip(href) == ~isna(href) /\ Len(href[1]) > 0 /\ In("-utf8.zip", href[1])

get_url_raises(anchor_hrefs) ==
    IF \E i \in 1..Len(anchor_hrefs) : has_utf8_zip(anchor_hrefs[i])
    THEN "" ELSE "URLNotFoundError"

\* get_url returning the last href that holds the marker
get_url_last(anchor_hrefs) ==
    LET i == CHOOSE i \in 1..Len(anchor_hrefs) :
                /\ has_utf8_zip(anchor_hrefs[i])
                /\ \A j \in (i + 1)..Len(anchor_hrefs) : ~has_utf8_zip(anchor_hrefs[j])
    IN  anchor_hrefs[i][1]

get_url(anchor_hrefs) ==
    LET i == CHOOSE i \in 1..Len(anchor_hrefs) :
                /\ has_utf8_zip(anchor_hrefs[i])
                /\ \A j \in 1..(i - 1) : ~has_utf8_zip(anchor_hrefs[j])
    IN  anchor_hrefs[i][1]

file_name == "usages_des_produits_autorises_utf8.csv"

raw_columns ==
    << "nom produit", "seconds noms commerciaux", "mentions autorisees",
       "Substances actives", "fonctions", "identifiant usage", "condition emploi",
       "gamme usage", "dose retenue", "etat usage", "nombre max d'application" >>

numeric_columns == {"dose retenue", "nombre max d'application"}

\* pd.read_csv(csv_file, sep=";"): a column of an empty table, and a column
\* of text with a value present, has dtype object; a column without any
\* value, and a column of numbers, has dtype float64
read_csv(rows) ==
    [columns |-> raw_columns,
     index |-> RangeIndex(Len(rows)),
     data |-> rows,
     object |-> {c \in Range(raw_columns) :
                    \/ Len(rows) = 0
                    \/ c \notin numeric_columns
                       /\ \E k \in 1..Len(rows) : ~isna(rows[k][c])}]

download_and_extract_dataframe_raises(archive) ==
    IF file_name \notin archive.namelist THEN "FileNameNotFoundError" ELSE ""

download_and_extract_dataframe(archive) == read_csv(archive.members[file_name])

----------------------------------------------------------------------------
(* Inputs *)

\* the largest number of rows of the tables built from RowPool
MaxRows == 2

Row(seconds, mentions, substances, fonctions, identifiant, condition, gamme, dose, etat, nmax) ==
    [c \in Range(raw_columns) |->
        CASE c = "nom produit" -> S("P")
          [] c = "seconds noms commerciaux" -> seconds
          [] c = "mentions autorisees" -> mentions
          [] c = "Substances actives" -> substances
          [] c = "fonctions" -> fonctions
          [] c = "identifiant usage" -> identifiant
          [] c = "condition emploi" -> condition
          [] c = "gamme usage" -> gamme
          [] c = "dose retenue" -> dose
          [] c = "etat usage" -> etat
          [] c = "nombre max d'application" -> nmax]

Bio == S("Utilisable en agriculture biologique")

BioControl == S("Utilisable en agriculture biologique | Produit de Biocontrôle")

Vigne == S("Vigne*Trt Part.Aer.*Mildiou(s)")

SpecCopper == S("Cuivre (sous forme de sulfate de cuivre) 200 g/L")

BaseRow ==
    Row(NaN, Bio, SpecCopper, S("Fongicide"), Vigne, NaN, S("Professionnel"),
        <<Dec(2, 0)>>, S("Autorisé"), <<Dec(4, 0)>>)

\* one product of each family, and the products that fall between them
RowPool ==
    { BaseRow,
      Row(S("B1 | B2"), BioControl, S("soufre (Sulphur) 80.0 %"), S("Fongicide"),
          Vigne, S("badigeon"), S("Professionnel"), <<Dec(125, 1)>>, S("Autorisé"),
          <<Dec(8, 0)>>),
      Row(NaN, Bio, S("Spinosad (Spinosad) 480 g/L"), S("Insecticide"), Vigne, NaN,
          S("jardin"), <<Dec(1, 1)>>, S("Autorisé"), <<Dec(2, 0)>>),
      Row(NaN, BioControl, S("Z9 (Straight Chain Lepidopteran Pheromones) 5 %|E7"),
          S("Insecticide"), Vigne, NaN, NaN, NaN, S("Autorisé"), NaN),
      Row(NaN, Bio, S("kaolin (Kaolin) 95 %"), S("Insecticide"), Vigne, NaN, NaN,
          <<Dec(50, 0)>>, S("Autorisé"), <<Dec(3, 0)>>),
      Row(NaN, Bio, SpecCopper, S("Fongicide"), Vigne, NaN, NaN, <<Dec(2, 0)>>,
          S("Retrait"), <<Dec(4, 0)>>),
      Row(NaN, BioControl, S("Bacillus subtilis (QST) abc"), S("Fongicide"), Vigne,
          NaN, NaN, <<Dec(4, 0)>>, S("Autorisé"), NaN),
      Row(NaN, Bio, S("cuivre + soufre (mix) 10 %"), NaN, Vigne, NaN, NaN,
          <<Dec(3, 0)>>, S("Autorisé"), <<Dec(1, 0)>>) }

MentionsPool ==
    { Bio, BioControl, S("PRODUCTION BIOLOGIQUE"),
      S("Emploi autorisé dans les jardins"),
      S("agriculture biologique - black ROT"),
      S("agriculture biologique Stad. Hivern. Ravageurs"),
      S("agriculture biologique Stade Hiverne Ravageurs"), NaN }

IdentifiantPool == { Vigne, S("Pommier*Trt Part.Aer.*Tavelure(s)"), NaN }

EtatPool == { S("Autorisé"), S("Retrait"), S("autorisé"), NaN }

SubstancesPool ==
    { SpecCopper, S("soufre (Sulphur) 80.0 %"), S("Spinosad (Spinosad) 480 g/L"),
      S("Bacillus thuringiensis (Btk) abc"), S("pyréthrines (Pyrethrins) 4.65 %"),
      S("Z9 (Straight Chain Lepidopteran Pheromones) 5 %"),
      S("kaolin (Kaolin) 95 %"), S("kaolin"), S("kaolin (Kaolin) xx"),
      S("cymoxanil (Cymoxanil) 30 g/kg | cuivre (Copper) 40 %"),
      S("cuivre (Copper) 20 % | soufre (Sulphur) 30 %"),
      S("cuivre + soufre (mix) 10 %"), S("cuivre (Copper) n.c."),
      S("spinosad (x) 5 %"), S("soufre (Sulphur)"), NaN }

FonctionsPool == { S("Insecticide"), S("Fongicide"), NaN }

DosePool == { <<Dec(25, 1)>>, <<Dec(125, 2)>>, NaN }

ConditionPool == { S("badigeon du tronc"), S("pulvérisation"), NaN }

GammePool == { S("Amateur / emploi autorisé dans les jardins"), S("Professionnel"), NaN }

\* rows that differ from BaseRow in the columns one stage reads
FilterRows ==
    { [BaseRow EXCEPT !["mentions autorisees"] = m, !["identifiant usage"] = i,
                      !["etat usage"] = e] :
        m \in MentionsPool, i \in IdentifiantPool, e \in EtatPool }

CategoryRows ==
    { [BaseRow EXCEPT !["Substances actives"] = s, !["fonctions"] = f,
                      !["dose retenue"] = d, !["mentions autorisees"] = m] :
        s \in SubstancesPool, f \in FonctionsPool, d \in DosePool,
        m \in {Bio, BioControl} }

OthersRows ==
    { [BaseRow EXCEPT !["condition emploi"] = c, !["gamme usage"] = g] :
        c \in ConditionPool, g \in GammePool }

RECURSIVE SeqsUpTo(_, _)
SeqsUpTo(pool, n) ==
    IF n = 0 THEN {<<>>}
    ELSE LET shorter == SeqsUpTo(pool, n - 1)
         IN  shorter \cup {Append(t, r) : t \in shorter, r \in pool}

\* the products of a table have distinct names: P1, P2, ...
Named(rows) ==
    [k \in 1..Len(rows) |->
        [rows[k] EXCEPT !["nom produit"] = S("P" \o Char(DecimalDigits, k + 1))]]

\* the three rows of the end-to-end example: copper, sulphur, unrelated
ExampleTable ==
    << BaseRow,
       [BaseRow EXCEPT !["Substances actives"] = S("soufre (Sulphur) 80.0 %")],
       [BaseRow EXCEPT !["Substances actives"] = S("kaolin (Kaolin) 95 %")] >>

Tables ==
    { Named(t) : t \in SeqsUpTo(RowPool, MaxRows)
                       \cup { <<r, BaseRow>> : r \in FilterRows \cup CategoryRows
                                                     \cup OthersRows }
                       \cup { ExampleTable } }

Archives ==
    { [namelist |-> {file_name}, members |-> (file_name :> t)] : t \in Tables }
    \cup { [namelist |-> {"usages_des_produits_autorises_v3_utf8.csv"},
            members |-> (file_name :> <<>>)] }

Pages ==
    { << NaN, S("/fr/datasets/"), S("https://static.data.gouv.fr/decisionamm-utf8.zip"),
         S("https://static.data.gouv.fr/old-utf8.zip") >>,
      << NaN, S("https://static.data.gouv.fr/decisionamm-windows1252.zip") >> }

----------------------------------------------------------------------------
(* The run of get_amm *)

NoFrame == [columns |-> <<>>, index |-> <<>>, data |-> <<>>, object |-> {}]

NoBlocks ==
    [df_cuivre |-> NoFrame, df_soufre |-> NoFrame, df_insecticide |-> NoFrame,
     df_pheromones |-> NoFrame, df_others |-> NoFrame]

InitRun ==
    /\ pc = "start"
    /\ page = <<>>
    /\ amm_url = ""
    /\ df_amm = NoFrame
    /\ df = NoFrame
    /\ blocks = NoBlocks
    /\ df_combined_products = NoFrame
    /\ csv = NaN
    /\ error = ""

NoLists ==
    [list_cuivre |-> <<>>, list_soufre |-> <<>>, list_insecticide |-> <<>>,
     list_confusion |-> <<>>, list_biocontrole |-> <<>>]

InitConcentration == value = NaN /\ concentration = NaN

InitLegacy ==
    /\ lecture = <<>>
    /\ li = 0
    /\ intrants = <<>>
    /\ lists = NoLists
    /\ intrants_final = <<>>

\* no function is called alone
InitAlone ==
    /\ argument = NoFrame
    /\ previous = [blocks |-> NoBlocks, df_combined_products |-> NoFrame, error |-> ""]
    /\ pandas = [regex |-> FALSE, empty_mask_is_labels |-> FALSE]

Init == InitRun /\ InitConcentration /\ InitLegacy /\ InitAlone

runVars == <<pc, page, amm_url, df_amm, df, blocks, df_combined_products, csv, error>>

otherVars ==
    <<value, concentration, lecture, li, intrants, lists, intrants_final,
      argument, previous, pandas>>

\* an exception caught and noted, the run going on to the last stage
Raise_swallowed(exception) == pc' = "combine_products" /\ error' = exception

\* an exception leaves get_amm: the run is over
Raise(exception) == pc' = "failed" /\ error' = exception

GetUrl ==
    /\ pc = "start"
    /\ \E anchor_hrefs \in Pages :
          /\ page' = anchor_hrefs
          /\ IF get_url_raises(anchor_hrefs) # ""
             THEN Raise(get_url_raises(anchor_hrefs)) /\ UNCHANGED amm_url
             ELSE amm_url' = get_url(anchor_hrefs) /\ pc' = "get_url" /\ UNCHANGED error
    /\ UNCHANGED <<df_amm, df, blocks, df_combined_products, csv>>
    /\ UNCHANGED otherVars

Download ==
    /\ pc = "get_url"
    /\ \E archive \in Archives :
          IF download_and_extract_dataframe_raises(archive) # ""
          THEN Raise(download_and_extract_dataframe_raises(archive)) /\ UNCHANGED df_amm
          ELSE /\ df_amm' = download_and_extract_dataframe(archive)
               /\ pc' = "download_and_extract_dataframe"
               /\ UNCHANGED error
    /\ UNCHANGED <<page, amm_url, df, blocks, df_combined_products, csv>>
    /\ UNCHANGED otherVars

Clean ==
    /\ pc = "download_and_extract_dataframe"
    /\ IF clean_df_amm_raises(df_amm)
       THEN Raise("AttributeError") /\ UNCHANGED df
       ELSE df' = clean_df_amm(df_amm) /\ pc' = "clean_df_amm" /\ UNCHANGED error
    /\ UNCHANGED <<page, amm_url, df_amm, blocks, df_combined_products, csv>>
    /\ UNCHANGED otherVars

\* On a frame without rows, DataFrame.apply(axis=1) returns a frame, and
\* whether that frame can be assigned to one column depends on the build of
\* pandas: both outcomes are kept.
AddOthers ==
    /\ pc = "clean_df_amm"
    /\ \/ df' = add_others(df) /\ pc' = "add_others" /\ UNCHANGED error
       \/ Len(df.data) = 0 /\ Raise("ValueError") /\ UNCHANGED df
    /\ UNCHANGED <<page, amm_url, df_amm, blocks, df_combined_products, csv>>
    /\ UNCHANGED otherVars

GetActiveCompound ==
    /\ pc = "add_others"
    /\ IF get_active_compound_raises(df)
       THEN Raise("AttributeError") /\ UNCHANGED df
       ELSE df' = get_active_compound(df) /\ pc' = "get_active_compound"
            /\ UNCHANGED error
    /\ UNCHANGED <<page, amm_url, df_amm, blocks, df_combined_products, csv>>
    /\ UNCHANGED otherVars

CombineProducts ==
    /\ pc = "get_active_compound"
    /\ \E regex \in BOOLEAN, empty_mask_is_labels \in BOOLEAN :
          IF combine_products_raises(df, empty_mask_is_labels) # ""
          THEN /\ Raise(combine_products_raises(df, empty_mask_is_labels))
               /\ UNCHANGED <<blocks, df_combined_products>>
          ELSE /\ blocks' = category_blocks(df, regex)
               /\ df_combined_products' = combine_products(category_blocks(df, regex))
               /\ pc' = "combine_products"
               /\ UNCHANGED error
    /\ UNCHANGED <<page, amm_url, df_amm, df, csv>>
    /\ UNCHANGED otherVars

ToCsv ==
    /\ pc = "combine_products"
    /\ csv' = to_csv(df_combined_products)
    /\ pc' = "to_csv"
    /\ UNCHANGED <<page, amm_url, df_amm, df, blocks, df_combined_products, error>>
    /\ UNCHANGED otherVars

Next == GetUrl \/ Download \/ Clean \/ AddOthers \/ GetActiveCompound
        \/ CombineProducts \/ ToCsv

Spec == Init /\ [][Next]_vars

----------------------------------------------------------------------------
(* process_concentration alone, on every short text *)

\* the longest text of ConcentrationTexts built from ConcentrationAlphabet
MaxTextLen == 5

ConcentrationAlphabet == {"0", "1", ".", "%", " ", "g", "/", "²"}

RECURSIVE Texts(_)
Texts(n) ==
    IF n = 0 THEN {""}
    ELSE LET shorter == Texts(n - 1)
         IN  shorter \cup {t \o c : t \in shorter, c \in ConcentrationAlphabet}

ConcentrationExamples ==
    {"80 %", "400 g/L", "abc", " 200 g/L", "1.25 %", "12.5 %", "5 % 20 g/L",
     "30 g/kg", "172 mg/diffuseur"}

ConcentrationValues ==
    {NaN} \cup {S(t) : t \in Texts(MaxTextLen) \cup ConcentrationExamples}

InitProcessConcentration ==
    /\ InitRun
    /\ InitLegacy
    /\ InitAlone
    /\ value \in ConcentrationValues
    /\ concentration = NaN

ProcessConcentration ==
    /\ pc = "start"
    /\ concentration' = process_concentration(value)
    /\ pc' = "process_concentration"
    /\ UNCHANGED <<page, amm_url, df_amm, df, blocks, df_combined_products, csv, error>>
    /\ UNCHANGED <<value, lecture, li, intrants, lists, intrants_final>>
    /\ UNCHANGED <<argument, previous, pandas>>

SpecProcessConcentration == InitProcessConcentration /\ [][ProcessConcentration]_vars

----------------------------------------------------------------------------
(* The exporter at the end of src/get_amm.py.  It reads the lines of        *)
(* fichier_bio; liste_lecture is the list of the fields of the current      *)
(* line and Autres its annotation.  A line is modelled by the row of its    *)
(* fields: liste_lecture[2] is "nom produit", [3] "seconds noms             *)
(* commerciaux", [7] "mentions autorisees", [8] "Substances actives",       *)
(* [9] "fonctions", [17] "dose retenue", [21] "nombre max d'application";   *)
(* a missing value is an empty field.                                       *)

\* the rows the exporter pads every list to, and writes
PadRows == 500

field(cell) == IF isna(cell) THEN "" ELSE cell[1]

\* int(s), float(s) succeed on a string of digits
IntOk(s) == Len(s) > 0 /\ \A i \in 1..Len(s) : In(Char(s, i), DecimalDigits)

\* Concentration_brute, the text read for the concentration: <<>> when
\* MA[1] or Concentration_liste[1] raises IndexError
Concentration_brute(substances) ==
    LET MA == split(substances, "(")
    IN  IF Len(MA) < 2 THEN <<>>
        ELSE LET Concentration_liste == split(MA[2], ") ")
             IN  IF Len(Concentration_liste) < 2 THEN <<>>
                 ELSE <<Concentration_liste[2]>>

\* the try block of the copper, sulphur and last branches: 0 in the except
legacy_concentration(substances) ==
    LET brute == Concentration_brute(substances)
    IN  IF brute = <<>> THEN Dec(0, 0)
        ELSE LET Concentration_nombre == digit_chars(brute[1])
             IN  IF ~IntOk(Concentration_nombre) THEN Dec(0, 0)
                 ELSE IF In("%", brute[1])
                 THEN DivPow10(Dec(DigitsValue(Concentration_nombre), 0), 1)
                 ELSE IF In(" g/", brute[1])
                 THEN DivPow10(Dec(DigitsValue(Concentration_nombre), 0), 2)
                 ELSE DivPow10(Dec(DigitsValue(Concentration_nombre), 0), 2)

\* the try block of the insecticide branch
legacy_insecticide_concentration(substances) ==
    LET brute == Concentration_brute(substances)
    IN  IF brute = <<>> THEN Dec(0, 0)
        ELSE LET Concentration_nombre == digit_chars(brute[1])
             IN  IF In("Bacillus", substances) THEN Dec(0, 0)
                 ELSE IF ~IntOk(Concentration_nombre) THEN Dec(0, 0)
                 ELSE DivPow10(Dec(DigitsValue(Concentration_nombre), 0), 4)

\* round((Concentration / 100) * float(liste_lecture[17]), 1), 0 in the except
legacy_dose(Concentration_value, dose_cell) ==
    IF isna(dose_cell) THEN Dec(0, 0)
    ELSE Round(Mul(DivPow10(Concentration_value, 2), dose_cell[1]), 1)

\* round(Concentration * float(liste_lecture[17]), 3), 0 in the except
legacy_insecticide_dose(Concentration_value, dose_cell) ==
    IF isna(dose_cell) THEN Dec(0, 0)
    ELSE Round(Mul(Concentration_value, dose_cell[1]), 3)

legacy_biocontrole(row) ==
    IF In("biocontrôle", field(row["mentions autorisees"])) THEN <<1>> ELSE <<0>>

legacy_branch(row) ==
    LET substances == field(row["Substances actives"])
    IN  IF In("cuivre", substances) THEN "cuivre"
        ELSE IF In("soufre", substances) \/ In("Sulphur", substances) THEN "soufre"
        ELSE IF In("Insecticide", field(row["fonctions"]))
                /\ (In("Spinosad", substances) \/ In("Bacillus", substances)
                    \/ In("pyréthrines", substances))
        THEN "insecticide"
        ELSE IF In("Pheromones", substances) THEN "confusion"
        ELSE "biocontrole"

\* the number of empty fields that start the lines of a branch
legacy_offset(branch) ==
    CASE branch = "cuivre" -> 0
      [] branch = "soufre" -> 9
      [] branch = "insecticide" -> 18
      [] branch = "confusion" -> 27
      [] branch = "biocontrole" -> 32

\* the fields a branch writes for one product name
legacy_fields(row, name) ==
    LET substances == field(row["Substances actives"])
        MA0 == S(split(substances, "(")[1])
        branch == legacy_branch(row)
        Concentration_value ==
            IF branch = "insecticide" THEN legacy_insecticide_concentration(substances)
            ELSE legacy_concentration(substances)
        Dose_value ==
            IF branch = "insecticide"
            THEN legacy_insecticide_dose(Concentration_value, row["dose retenue"])
            ELSE legacy_dose(Concentration_value, row["dose retenue"])
        insecticide == IF In("Insecticide", field(row["fonctions"])) THEN <<1>> ELSE <<0>>
    IN  CASE branch = "cuivre" ->
                << S(name), MA0, row["Autres"], <<Concentration_value>>,
                   row["dose retenue"], <<Dose_value>>, row["nombre max d'application"] >>
          [] branch \in {"soufre", "insecticide"} ->
                << S(name), MA0, row["Autres"], <<Concentration_value>>,
                   row["dose retenue"], <<Dose_value>>, legacy_biocontrole(row),
                   row["nombre max d'application"] >>
          [] branch = "confusion" ->
                << S(name),
                   S(replace(replace(substances,
                                     "(Straight Chain Lepidopteran Pheromones)", ""),
                             "|", "+")),
                   legacy_biocontrole(row) >>
          [] branch = "biocontrole" ->
                << S(name), MA0, row["Autres"], <<Concentration_value>>,
                   row["dose retenue"], <<Dose_value>>, legacy_biocontrole(row),
                   insecticide, row["nombre max d'application"] >>

\* liste_lecture[3].split(" | "), the empty names skipped
liste_autres(row) ==
    SelectSeq(split(field(row["seconds noms commerciaux"]), " | "),
              LAMBDA i : i # "")

\* the copper branch computes its dose outside any try
legacy_export_raises(row) ==
    IF legacy_branch(row) = "cuivre" /\ isna(row["dose retenue"])
    THEN "ValueError" ELSE ""

\* the lines one line of fichier_bio adds to fichiers_intrants: the product,
\* then one line for each of its second names
legacy_export(row) ==
    LET names == <<field(row["nom produit"])>> \o liste_autres(row)
    IN  [k \in 1..Len(names) |->
            [offset |-> legacy_offset(legacy_branch(row)),
             fields |-> legacy_fields(row, names[k])]]

\* the second loop: a line goes to the list of the block where its first
\* filled field stands
legacy_lists(lines) ==
    LET Of(offset) ==
            LET kept == SelectSeq(lines, LAMBDA l : l.offset = offset)
            IN  [k \in 1..Len(kept) |-> kept[k].fields]
    IN  [list_cuivre |-> Of(0), list_soufre |-> Of(9), list_insecticide |-> Of(18),
         list_confusion |-> Of(27), list_biocontrole |-> Of(32)]

\* for i in range(len(l), 500): l.append(";;;")
legacy_pad(l) ==
    IF Len(l) < PadRows THEN l \o [k \in 1..(PadRows - Len(l)) |-> <<>>] ELSE l

\* the final file without the rows that hold padding only
legacy_final_filled_rows(ls) ==
    LET Filled(i) ==
            \/ ls.list_cuivre[i] # <<>> \/ ls.list_soufre[i] # <<>>
            \/ ls.list_insecticide[i] # <<>> \/ ls.list_confusion[i] # <<>>
            \/ ls.list_biocontrole[i] # <<>>
    IN  [i \in 1..Cardinality({k \in 1..PadRows : Filled(k)}) |->
            << ls.list_cuivre[i], ls.list_soufre[i], ls.list_insecticide[i],
               ls.list_confusion[i], ls.list_biocontrole[i] >>]

\* for i in range(0, 500): one row of the final file from the five lists
legacy_final(ls) ==
    [i \in 1..PadRows |->
        << ls.list_cuivre[i], ls.list_soufre[i], ls.list_insecticide[i],
           ls.list_confusion[i], ls.list_biocontrole[i] >>]

\* the files of up to MaxRows lines, and a file of more lines than the
\* exporter writes rows: a sulphur product with two second names, then
\* PadRows + 1 copper products, the last one named apart
LegacyInputs ==
    { add_others(read_csv(Named(t))).data :
        t \in SeqsUpTo(RowPool, MaxRows) \cup { <<r>> : r \in CategoryRows } }
    \cup
    { add_others(read_csv(
        <<[BaseRow EXCEPT !["nom produit"] = S("S"),
                          !["seconds noms commerciaux"] = S("B1 | B2"),
                          !["Substances actives"] = S("soufre (Sulphur) 80.0 %")]>>
        \o [k \in 1..(PadRows + 1) |->
                [BaseRow EXCEPT !["nom produit"] =
                    S(IF k > PadRows THEN "Last"
                      ELSE "P" \o Char(DecimalDigits, (k % 10) + 1))]])).data }

InitLegacyExporter ==
    /\ InitRun
    /\ InitConcentration
    /\ InitAlone
    /\ lecture \in LegacyInputs
    /\ li = 0
    /\ intrants = <<>>
    /\ lists = NoLists
    /\ intrants_final = <<>>

legacyFrame ==
    <<page, amm_url, df_amm, df, blocks, df_combined_products, csv, value, concentration,
      argument, previous, pandas>>

\* one turn of "for i in lecture"
LegacyExportLine ==
    /\ pc = "start"
    /\ li < Len(lecture)
    /\ li' = li + 1
    /\ IF legacy_export_raises(lecture[li + 1]) # ""
       THEN Raise(legacy_export_raises(lecture[li + 1])) /\ UNCHANGED intrants
       ELSE /\ intrants' = intrants \o legacy_export(lecture[li + 1])
            /\ UNCHANGED <<pc, error>>
    /\ UNCHANGED <<lecture, lists, intrants_final>>
    /\ UNCHANGED legacyFrame

LegacyCollect ==
    /\ pc = "start"
    /\ li = Len(lecture)
    /\ lists' = legacy_lists(intrants)
    /\ pc' = "lists"
    /\ UNCHANGED <<lecture, li, intrants, intrants_final, error>>
    /\ UNCHANGED legacyFrame

LegacyPad ==
    /\ pc = "lists"
    /\ lists' = [l \in DOMAIN lists |-> legacy_pad(lists[l])]
    /\ pc' = "padded"
    /\ UNCHANGED <<lecture, li, intrants, intrants_final, error>>
    /\ UNCHANGED legacyFrame

LegacyWrite ==
    /\ pc = "padded"
    /\ intrants_final' = legacy_final(lists)
    /\ pc' = "intrants_final"
    /\ UNCHANGED <<lecture, li, intrants, lists, error>>
    /\ UNCHANGED legacyFrame

NextLegacy == LegacyExportLine \/ LegacyCollect \/ LegacyPad \/ LegacyWrite

SpecLegacy == InitLegacyExporter /\ [][NextLegacy]_vars

----------------------------------------------------------------------------
(* combine_products called twice on one enriched table *)

\* one product of each family among the rows of RowPool that clean_df_amm keeps
ClassifierRows ==
    { r \in RowPool :
        /\ r["etat usage"] = S("Autorisé")
        /\ r["Substances actives"] \in
              { SpecCopper, S("soufre (Sulphur) 80.0 %"), S("Spinosad (Spinosad) 480 g/L"),
                S("Z9 (Straight Chain Lepidopteran Pheromones) 5 %|E7"),
                S("kaolin (Kaolin) 95 %") } }

\* the tables get_amm hands to combine_products
EnrichedTables ==
    { get_active_compound(add_others(clean_df_amm(read_csv(Named(t))))) :
        t \in SeqsUpTo(ClassifierRows, MaxRows) }

InitCombineProductsTwice ==
    /\ InitConcentration
    /\ InitLegacy
    /\ pc = "start"
    /\ page = <<>>
    /\ amm_url = ""
    /\ df_amm = NoFrame
    /\ df \in EnrichedTables
    /\ blocks = NoBlocks
    /\ df_combined_products = NoFrame
    /\ csv = NaN
    /\ error = ""
    /\ argument = df
    /\ previous = [blocks |-> NoBlocks, df_combined_products |-> NoFrame, error |-> ""]
    /\ pandas \in [regex : BOOLEAN, empty_mask_is_labels : BOOLEAN]

\* one call combine_products(df): the builders read df and build new frames
CallCombineProducts ==
    /\ IF combine_products_raises(df, pandas.empty_mask_is_labels) # ""
       THEN /\ error' = combine_products_raises(df, pandas.empty_mask_is_labels)
            /\ UNCHANGED <<blocks, df_combined_products>>
       ELSE \E b \in {category_blocks(df, pandas.regex)} :
                /\ blocks' = b
                /\ df_combined_products' = combine_products(b)
                /\ error' = ""
    /\ UNCHANGED <<page, amm_url, df_amm, df, csv, argument, pandas>>
    /\ UNCHANGED <<value, concentration, lecture, li, intrants, lists, intrants_final>>

CombineProductsFirst ==
    /\ pc = "start"
    /\ pc' = "combine_products"
    /\ CallCombineProducts
    /\ UNCHANGED previous

CombineProductsSecond ==
    /\ pc = "combine_products"
    /\ pc' = "combine_products twice"
    /\ previous' = [blocks |-> blocks, df_combined_products |-> df_combined_products,
                    error |-> error]
    /\ CallCombineProducts

NextCombineProductsTwice == CombineProductsFirst \/ CombineProductsSecond

SpecCombineProductsTwice ==
    InitCombineProductsTwice /\ [][NextCombineProductsTwice]_vars

----------------------------------------------------------------------------
(* make_second_names_main called on one enriched table *)

SecondNamesPool ==
    { NaN, S("B1"), S("B2"), S("B1 | B2"), S("B1|B2"), S(" B1 |B2 "),
      S("B1 | B2 | B3"), S("Bouillie B 1 | B2") }

SecondNamesRows ==
    { [BaseRow EXCEPT !["seconds noms commerciaux"] = n] : n \in SecondNamesPool }

SecondNamesTables ==
    { get_active_compound(add_others(clean_df_amm(read_csv(Named(t))))) :
        t \in SeqsUpTo(SecondNamesRows, MaxRows) }

InitSecondNames ==
    /\ InitConcentration
    /\ InitLegacy
    /\ pc = "start"
    /\ page = <<>>
    /\ amm_url = ""
    /\ df_amm = NoFrame
    /\ df \in SecondNamesTables
    /\ blocks = NoBlocks
    /\ df_combined_products = NoFrame
    /\ csv = NaN
    /\ error = ""
    /\ argument = df
    /\ previous = [blocks |-> NoBlocks, df_combined_products |-> NoFrame, error |-> ""]
    /\ pandas = [regex |-> FALSE, empty_mask_is_labels |-> FALSE]

\* df = make_second_names_main(df)
MakeSecondNamesMain ==
    /\ pc = "start"
    /\ df' = make_second_names_main(df)
    /\ pc' = "make_second_names_main"
    /\ UNCHANGED <<page, amm_url, df_amm, blocks, df_combined_products, csv, error>>
    /\ UNCHANGED otherVars

SpecSecondNames == InitSecondNames /\ [][MakeSecondNamesMain]_vars

----------------------------------------------------------------------------
(* get_url called on one page *)

\* the largest number of anchors of a page
MaxAnchors == 3

\* the href of an anchor: none (NaN), empty, or a link
HrefPool ==
    { NaN, S(""), S("/fr/datasets/"),
      S("https://static.data.gouv.fr/decisionamm-utf8.zip"),
      S("https://static.data.gouv.fr/old-utf8.zip"),
      S("https://static.data.gouv.fr/decisionamm-utf8.zip?v=2"),
      S("https://static.data.gouv.fr/decisionamm-windows1252.zip") }

InitGetUrl ==
    /\ InitConcentration
    /\ InitLegacy
    /\ InitAlone
    /\ pc = "start"
    /\ page \in SeqsUpTo(HrefPool, MaxAnchors)
    /\ amm_url = ""
    /\ df_amm = NoFrame
    /\ df = NoFrame
    /\ blocks = NoBlocks
    /\ df_combined_products = NoFrame
    /\ csv = NaN
    /\ error = ""

\* amm_url = get_url(), the anchors of the page being those of page
CallGetUrl ==
    /\ pc = "start"
    /\ IF get_url_raises(page) # ""
       THEN Raise(get_url_raises(page)) /\ UNCHANGED amm_url
       ELSE amm_url' = get_url(page) /\ pc' = "get_url" /\ UNCHANGED error
    /\ UNCHANGED <<page, df_amm, df, blocks, df_combined_products, csv>>
    /\ UNCHANGED otherVars

SpecGetUrl == InitGetUrl /\ [][CallGetUrl]_vars

----------------------------------------------------------------------------
(* Properties of clean_df_amm *)

\* text holds term, whatever the case of the letters; a missing text holds nothing
HoldsTerm(cell, term) == ~isna(cell) /\ In(lower(term), lower(cell[1]))

DenylistTerms == Range(exclude_usages)

FourPredicates(row) ==
    /\ \/ HoldsTerm(row["mentions autorisees"], "agriculture biologique")
       \/ HoldsTerm(row["mentions autorisees"], "production biologique")
    /\ HoldsTerm(row["identifiant usage"], "vigne")
    /\ \A term \in DenylistTerms : ~HoldsTerm(row["mentions autorisees"], term)
    /\ ~isna(row["etat usage"]) /\ In("Autorisé", row["etat usage"][1])

\* the row of df_amm labelled label is a row of clean_df_amm's result
Retained(label) == \E k \in 1..Len(df.data) : df.data[k]["index"] = <<label>>

\* C1: clean_df_amm retains a row if and only if the four predicates hold
\* together: the organic mention, the vine usage, no denylist term as a
\* substring of the mentions (case-insensitive), and the marker 'Autorisé'.
C1_RetainedIffFourPredicates ==
    pc = "clean_df_amm" =>
        \A i \in 1..Len(df_amm.data) :
            Retained(df_amm.index[i]) <=> FourPredicates(df_amm.data[i])

----------------------------------------------------------------------------
(* Properties of process_concentration *)

DigitPositions(s) == {i \in 1..Len(s) : In(Char(s, i), DecimalDigits)}

DigitAt(s, i) == CHOOSE d \in 0..9 : Char(DecimalDigits, d + 1) = Char(s, i)

\* the number written by the decimal digits of s, read left to right
RECURSIVE NumberOf(_, _)
NumberOf(s, ps) ==
    IF ps = {} THEN 0
    ELSE LET i == CHOOSE x \in ps : \A y \in ps : y <= x
         IN  DigitAt(s, i) + 10 * NumberOf(s, ps \ {i})

\* cell is the number n / 10^k, and has at most two decimals
IsQuotient(cell, n, k) ==
    /\ ~isna(cell)
    /\ cell[1].e <= 2
    /\ cell[1].m * Pow10(2 - cell[1].e) = n * Pow10(2 - k)

\* C2: process_concentration gives N/10 when the text holds '%' and N/100
\* otherwise, N being the number its digit characters write, with at most
\* two decimals; '80 %' gives 8.0 and '400 g/L' gives 4.0; a text without
\* digit, and a value that is no string, give the missing marker.
C2_ProcessConcentrationReference ==
    pc = "process_concentration" =>
        /\ IF isna(value) \/ DigitPositions(value[1]) = {}
           THEN isna(concentration)
           ELSE IsQuotient(concentration,
                           NumberOf(value[1], DigitPositions(value[1])),
                           IF \E i \in 1..Len(value[1]) : Char(value[1], i) = "%"
                           THEN 1 ELSE 2)
        /\ value = S("80 %") => concentration = <<[m |-> 8, e |-> 0]>>
        /\ value = S("400 g/L") => concentration = <<[m |-> 4, e |-> 0]>>
        /\ value = S("abc") => concentration = NaN

C2_Witness ==
    /\ pc = "process_concentration"
    /\ value = S("1.25 %")
    /\ concentration = <<[m |-> 125, e |-> 1]>>

----------------------------------------------------------------------------
(* Properties of the category blocks *)

Combined == pc \in {"combine_products", "to_csv"}

BlockNames == {"df_cuivre", "df_soufre", "df_insecticide", "df_pheromones", "df_others"}

\* the enriched row a row of a block was built from: the one of its product
SourceRow(block_row) ==
    CHOOSE row \in Range(df.data) : row["nom produit"] = block_row["nom produit"]

\* the enriched row at position i is a row of block b
InBlock(b, i) ==
    \E k \in 1..Len(blocks[b].data) :
        blocks[b].data[k]["nom produit"] = df.data[i]["nom produit"]

\* a text in which process_concentration finds no number
FailsToParse(text_cell) == isna(text_cell) \/ DigitPositions(text_cell[1]) = {}

NonNegative(cell) == isna(cell) \/ cell[1].m >= 0

\* the line of fichier_bio a line of fichiers_intrants was written for
LegacySource(line) ==
    CHOOSE row \in Range(lecture) :
        line.fields[1][1] \in Range(<<field(row["nom produit"])>> \o liste_autres(row))

\* C3: in the copper, sulphur, insecticide and other blocks of every
\* revision, a row whose concentration text fails to parse has the missing
\* marker as concentration and as dose, never 0, and the concentrations and
\* doses present are not negative.
C3_FailedParseIsMissing ==
    /\ Combined =>
          \A b \in {"df_cuivre", "df_soufre", "df_insecticide", "df_others"} :
              \A k \in 1..Len(blocks[b].data) :
                  LET row == blocks[b].data[k]
                      text == str_split_get(SourceRow(row)["Substances actives"], ")", 1)
                  IN  /\ FailsToParse(text) =>
                            /\ isna(row["Dose"])
                            /\ "Concentration" \in DOMAIN row => isna(row["Concentration"])
                      /\ NonNegative(row["Dose"])
                      /\ "Concentration" \in DOMAIN row => NonNegative(row["Concentration"])
    /\ \A n \in 1..Len(intrants) :
          LET line == intrants[n]
              brute == Concentration_brute(field(LegacySource(line)["Substances actives"]))
          IN  line.offset \in {0, 9, 18, 32} =>
                  /\ FailsToParse(brute) => isna(line.fields[4]) /\ isna(line.fields[6])
                  /\ NonNegative(line.fields[4]) /\ NonNegative(line.fields[6])

\* the text of s after its first ")", <<>> when s has none
AfterFirstParenthesis(s) ==
    IF \E i \in 1..Len(s) : Char(s, i) = ")"
    THEN LET i == CHOOSE i \in 1..Len(s) :
                     Char(s, i) = ")" /\ \A j \in 1..(i - 1) : Char(s, j) # ")"
         IN  <<SubSeq(s, i + 1, Len(s))>>
    ELSE <<>>

\* the same, stopped before the next ")"
UpToNextParenthesis(text_cell) ==
    IF isna(text_cell) THEN <<>>
    ELSE LET t == text_cell[1]
             stops == {i \in 1..Len(t) : Char(t, i) = ")"}
         IN  IF stops = {} THEN <<t>>
             ELSE <<SubSeq(t, 1, (CHOOSE i \in stops : \A j \in stops : i <= j) - 1)>>

\* dose_cell is c/100 * d rounded to one decimal: a number of tenths at
\* most half a tenth away from the exact product (in millionths)
IsDoseOf(dose_cell, c, d) ==
    /\ ~isna(dose_cell)
    /\ dose_cell[1].e <= 1
    /\ LET rounded == dose_cell[1].m * Pow10(6 - dose_cell[1].e)
           exact == c.m * d.m * Pow10(6 - (c.e + 2 + d.e))
       IN  2 * rounded - 2 * exact \in (0 - 100000)..100000

DoseFollowsText(whole) ==
    Combined =>
        \A b \in {"df_cuivre", "df_soufre", "df_others"} :
            \A k \in 1..Len(blocks[b].data) :
                LET row == blocks[b].data[k]
                    source == SourceRow(row)
                    after == AfterFirstParenthesis(field(source["Substances actives"]))
                    c == process_concentration(IF whole THEN after
                                               ELSE UpToNextParenthesis(after))
                    d == source["dose retenue"]
                IN  (~isna(c) /\ ~isna(d)) => IsDoseOf(row["Dose"], c[1], d[1])

\* C4 (as claimed): in the copper, sulphur and other blocks the dose of a
\* row is c/100 * d rounded to one decimal, c being process_concentration
\* of all the text that follows the first ')' of the substance description.
C4_DoseFromTextAfterFirstParenthesis == DoseFollowsText(TRUE)

\* C4 (amended): the same, c being process_concentration of the text
\* between the first ')' and the next ')' (the end when there is no other).
C4_DoseFromTextBetweenParentheses == DoseFollowsText(FALSE)

C4_Witness ==
    /\ Combined
    /\ \E k \in 1..Len(blocks.df_cuivre.data) :
          /\ SourceRow(blocks.df_cuivre.data[k])["Substances actives"]
                = S("cuivre (Copper) 20 % | soufre (Sulphur) 30 %")
          /\ SourceRow(blocks.df_cuivre.data[k])["dose retenue"] = <<[m |-> 25, e |-> 1]>>
          /\ blocks.df_cuivre.data[k]["Concentration"] = <<[m |-> 2, e |-> 0]>>
          /\ ~isna(blocks.df_cuivre.data[k]["Dose"])

\* C5: the 'other' block is the complement of the four other blocks: a row
\* of the enriched table is in 'other' if and only if it is in none of
\* copper, sulphur, insecticide and pheromone, so every row is in a block.
C5_OthersIsComplement ==
    Combined =>
        \A i \in 1..Len(df.data) :
            InBlock("df_others", i)
                <=> ~\E b \in BlockNames \ {"df_others"} : InBlock(b, i)

\* C6: no row of the enriched table is selected into more than one of the
\* copper, sulphur, insecticide and pheromone blocks.
C6_FourBlocksDisjoint ==
    Combined =>
        \A i \in 1..Len(df.data) :
            \A b1, b2 \in BlockNames \ {"df_others"} :
                (InBlock(b1, i) /\ InBlock(b2, i)) => b1 = b2

\* the selection predicates, in the words of the table of categories
Selected(b, row) ==
    LET substances == lower(row["Substances actives"][1])
        compound == lower(row["Active Compound"][1])
    IN  CASE b = "df_cuivre" -> In("cuivre", compound)
          [] b = "df_soufre" -> In("soufre", compound) \/ In("sulphur", compound)
          [] b = "df_insecticide" ->
                /\ ~isna(row["fonctions"])
                /\ In("insecticide", lower(row["fonctions"][1]))
                /\ \E sub \in {"Spinosad", "Bacillus", "pyréthrines"} :
                      In(sub, row["Substances actives"][1])
          [] b = "df_pheromones" -> In("pheromones", substances)
          [] b = "df_others" ->
                ~\E sub \in {"spinosad", "bacillus", "pyréthrines", "soufre",
                             "sulphur", "cuivre", "pheromones"} : In(sub, substances)

\* C7: each block has as many rows as the enriched table has rows
\* satisfying the predicate of its category, in the order of the table.
C7_BlockRowsAreSelectedRowsInOrder ==
    Combined =>
        \A b \in BlockNames :
            LET selected == SelectSeq(df.data, LAMBDA row : Selected(b, row))
            IN  /\ Len(blocks[b].data) = Len(selected)
                /\ \A k \in 1..Len(selected) :
                      blocks[b].data[k]["nom produit"] = selected[k]["nom produit"]

C7_Witness ==
    /\ Combined
    /\ Len(blocks.df_cuivre.data) = 2
    /\ Len(blocks.df_soufre.data) = 1
    /\ Len(df.data) = 2

BacillusRows ==
    {k \in 1..Len(blocks.df_insecticide.data) :
        In("bacillus",
           lower(SourceRow(blocks.df_insecticide.data[k])["Substances actives"][1]))}

\* C8 (as claimed): in the insecticide block, the concentration of a row
\* whose substance description holds 'Bacillus' is forced to 0, so that its
\* dose is 0.
C8_BacillusDoseIsZero ==
    Combined =>
        \A k \in BacillusRows :
            blocks.df_insecticide.data[k]["Dose"] = <<[m |-> 0, e |-> 0]>>

\* C8 (amended): in the insecticide block of create_df_insecticide, the
\* dose of such a row is 0 when the row has a reference dose, whatever its
\* concentration text, and missing when the reference dose is missing.
C8_BacillusDoseIsZeroOrMissing ==
    Combined =>
        \A k \in BacillusRows :
            LET row == blocks.df_insecticide.data[k]
            IN  IF isna(row["dose retenue"]) THEN isna(row["Dose"])
                ELSE row["Dose"] = <<[m |-> 0, e |-> 0]>>

C8_Witness ==
    /\ Combined
    /\ \E k \in BacillusRows :
          /\ FailsToParse(str_split_get(
                 SourceRow(blocks.df_insecticide.data[k])["Substances actives"], ")", 1))
          /\ blocks.df_insecticide.data[k]["Dose"] = <<[m |-> 0, e |-> 0]>>

HasColumns(b, cols) ==
    /\ Len(blocks[b].columns) = Cardinality(cols)
    /\ Range(blocks[b].columns) = cols
    /\ \A k \in 1..Len(blocks[b].data) : DOMAIN blocks[b].data[k] = cols

CopperColumns ==
    {"nom produit", "Active Compound", "Autres", "Concentration", "dose retenue",
     "Dose", "nombre max d'application"}

ColumnsExceptSulphur ==
    /\ HasColumns("df_cuivre", CopperColumns)
    /\ HasColumns("df_insecticide",
                  {"nom produit", "Active Compound", "Autres", "dose retenue", "Dose",
                   "Biocontrôle (1/0)", "nombre max d'application"})
    /\ HasColumns("df_pheromones", {"nom produit", "Active Compound", "Biocontrôle (1/0)"})
    /\ HasColumns("df_others",
                  {"nom produit", "Active Compound", "Autres", "dose retenue", "Dose",
                   "Insecticide", "Biocontrôle (1/0)", "nombre max d'application"})

RECURSIVE MaxOf(_)
MaxOf(ns) ==
    IF ns = {} THEN 0
    ELSE LET n == CHOOSE x \in ns : TRUE IN Max(n, MaxOf(ns \ {n}))

\* the rows the exporter wrote for a block, before any padding
LegacyBlockRows(offset) == Len(SelectSeq(intrants, LAMBDA l : l.offset = offset))

\* C10: the combined output has exactly as many rows as the longest block,
\* the shorter blocks padded, in the pandas revision and in the exporter.
C10_OutputRowsAreLongestBlock ==
    /\ Combined =>
          Len(df_combined_products.data) = MaxOf({Len(blocks[b].data) : b \in BlockNames})
    /\ pc = "intrants_final" =>
          Len(intrants_final) = MaxOf({LegacyBlockRows(o) : o \in {0, 9, 18, 27, 32}})

----------------------------------------------------------------------------
(* Properties of the functions called alone *)

----------------------------------------------------------------------------
(* Properties of add_others and get_active_compound *)

HasBadigeon(row) ==
    ~isna(row["condition emploi"]) /\ In("badigeon", row["condition emploi"][1])

HasJardin(row) ==
    ~isna(row["gamme usage"]) /\ In("jardin", row["gamme usage"][1])

\* C12: add_others sets 'Autres' of every row to 'badigeon' when
\* 'condition emploi' is present and contains 'badigeon', to 'Jardin
\* autorisé' when 'gamme usage' is present and contains 'jardin', to
\* 'badigeon|Jardin autorisé' when both do, and to '' when neither does.
C12_AutresIsOneOfFour ==
    pc = "add_others" =>
        \A k \in 1..Len(df.data) :
            LET row == df.data[k]
            IN  row["Autres"] =
                    S(CASE HasBadigeon(row) /\ HasJardin(row) -> "badigeon|Jardin autorisé"
                        [] HasBadigeon(row) /\ ~HasJardin(row) -> "badigeon"
                        [] ~HasBadigeon(row) /\ HasJardin(row) -> "Jardin autorisé"
                        [] OTHER -> "")

C12_Witness ==
    /\ pc = "add_others"
    /\ \E k \in 1..Len(df.data) : df.data[k]["Autres"] = S("badigeon|Jardin autorisé")
    /\ \E k \in 1..Len(df.data) : df.data[k]["Autres"] = S("")

\* c is the part of s before its first "(", all of s when s has none
IsPartBeforeParenthesis(c, s) ==
    /\ Len(c) <= Len(s)
    /\ c = SubSeq(s, 1, Len(c))
    /\ \A i \in 1..Len(c) : Char(c, i) # "("
    /\ Len(c) < Len(s) => Char(s, Len(c) + 1) = "("

\* C13: get_active_compound sets 'Active Compound' of every row to the part
\* of 'Substances actives' before its first '(', blanks kept, and to the
\* whole field when it has no '('; a missing field gives a missing name.
C13_CompoundIsPartBeforeParenthesis ==
    pc = "get_active_compound" =>
        \A k \in 1..Len(df.data) :
            LET row == df.data[k]
            IN  IF isna(row["Substances actives"]) THEN isna(row["Active Compound"])
                ELSE /\ ~isna(row["Active Compound"])
                     /\ IsPartBeforeParenthesis(row["Active Compound"][1],
                                                row["Substances actives"][1])

C13_Witness ==
    /\ pc = "get_active_compound"
    /\ \E k \in 1..Len(df.data) : df.data[k]["Active Compound"] = S("kaolin")
    /\ \E k \in 1..Len(df.data) : df.data[k]["Active Compound"] = S("Cuivre ")

----------------------------------------------------------------------------
(* Properties of make_second_names_main *)

\* the pipe-delimited names of a field, without the blanks around them
RECURSIVE Trimmed(_)
Trimmed(name) ==
    IF name # "" /\ Head(name) = " " THEN Trimmed(Tail(name))
    ELSE IF name # "" /\ Char(name, Len(name)) = " "
    THEN Trimmed(SubSeq(name, 1, Len(name) - 1))
    ELSE name

SecondNames(row) ==
    IF isna(row["seconds noms commerciaux"]) THEN <<>>
    ELSE LET pieces == split(row["seconds noms commerciaux"][1], "|")
         IN  [n \in 1..Len(pieces) |-> Trimmed(pieces[n])]

\* the number of secondary names of the rows before row k
RECURSIVE NamesBefore(_, _)
NamesBefore(data, k) ==
    IF k <= 1 THEN 0 ELSE NamesBefore(data, k - 1) + Len(SecondNames(data[k - 1]))

\* C14: make_second_names_main returns the rows it was given, unchanged and
\* in their order, followed by one more row for each pipe-delimited name of
\* each row whose 'seconds noms commerciaux' is present: that row has the
\* name as 'nom produit' and the source row's value in every other column.
\* A row without the field adds nothing.
C14_SecondNamesFanOut ==
    pc = "make_second_names_main" =>
        LET n == Len(argument.data)
        IN  /\ Len(df.data) = n + NamesBefore(argument.data, n + 1)
            /\ \A k \in 1..n : df.data[k] = argument.data[k]
            /\ \A k \in 1..n :
                  \A j \in 1..Len(SecondNames(argument.data[k])) :
                      LET added == df.data[n + NamesBefore(argument.data, k) + j]
                      IN  /\ added["nom produit"] = S(SecondNames(argument.data[k])[j])
                          /\ \A c \in DOMAIN added \ {"nom produit"} :
                                added[c] = argument.data[k][c]
            /\ df.columns = argument.columns
            /\ df.index = [k \in 1..Len(df.data) |-> k - 1]

C14_Witness ==
    /\ pc = "make_second_names_main"
    /\ Len(argument.data) = 2
    /\ Len(df.data) = 5
    /\ isna(argument.data[1]["seconds noms commerciaux"])
    /\ df.data[5]["nom produit"] = S("B3")

----------------------------------------------------------------------------
(* Properties of the biocontrol flag and of the pheromone compound *)

\* 1 when the mentions hold "biocontrôle" in any letter case, 0 otherwise
FlagOfMentions(mentions) ==
    IF ~isna(mentions) /\ In("biocontrôle", lower(mentions[1])) THEN <<1>> ELSE <<0>>

PandasFlagsFollowMentions ==
    Combined =>
        \A b \in {"df_soufre", "df_insecticide", "df_pheromones", "df_others"} :
            \A k \in 1..Len(blocks[b].data) :
                blocks[b].data[k]["Biocontrôle (1/0)"]
                    = FlagOfMentions(SourceRow(blocks[b].data[k])["mentions autorisees"])

C16_PheromoneCompoundHasNoPipe ==
    Combined =>
        \A k \in 1..Len(blocks.df_pheromones.data) :
            LET row == blocks.df_pheromones.data[k]
                substances == SourceRow(row)["Substances actives"][1]
            IN  /\ row["Active Compound"]
                     = S(replace(replace(substances,
                                         "(Straight Chain Lepidopteran Pheromones)", ""),
                                 "|", "+"))
                /\ ~In("|", row["Active Compound"][1])

----------------------------------------------------------------------------
(* Properties of the table clean_df_amm returns *)

\* the position in the table read of the product of row k of the table kept
PositionRead(k) ==
    CHOOSE i \in 1..Len(df_amm.data) :
        df_amm.data[i]["nom produit"] = df.data[k]["nom produit"]

\* C17: the rows clean_df_amm returns are rows of its input, in the same
\* relative order.
C17_CleanKeepsOrder ==
    pc = "clean_df_amm" =>
        /\ \A k \in 1..Len(df.data) :
              \E i \in 1..Len(df_amm.data) :
                  df_amm.data[i]["nom produit"] = df.data[k]["nom produit"]
        /\ \A k, l \in 1..Len(df.data) : k < l => PositionRead(k) < PositionRead(l)

C17_Witness ==
    /\ pc = "clean_df_amm"
    /\ Len(df_amm.data) = 3
    /\ Len(df.data) = 3

FreshIndex == df.index = [k \in 1..Len(df.data) |-> k - 1]

\* C18 (as claimed): the table clean_df_amm returns is indexed 0..n-1 and
\* has exactly the columns of its input, nothing of the input's index
\* being left in it.
C18_IndexDiscarded ==
    pc = "clean_df_amm" =>
        /\ FreshIndex
        /\ df.columns = df_amm.columns
        /\ \A k \in 1..Len(df.data) : DOMAIN df.data[k] = Range(df_amm.columns)

\* C18 (amended): the table clean_df_amm returns is indexed 0..n-1 and has
\* the columns of its input after a first column 'index', which holds for
\* each row the label the row had in the input's index; its other cells
\* are those of the input row.
C18_IndexKeptAsColumn ==
    pc = "clean_df_amm" =>
        /\ FreshIndex
        /\ df.columns = <<"index">> \o df_amm.columns
        /\ \A k \in 1..Len(df.data) :
              /\ DOMAIN df.data[k] = {"index"} \cup Range(df_amm.columns)
              /\ df.data[k]["index"] = <<df_amm.index[PositionRead(k)]>>
              /\ \A c \in Range(df_amm.columns) :
                    df.data[k][c] = df_amm.data[PositionRead(k)][c]

C18_Witness ==
    /\ pc = "clean_df_amm"
    /\ Len(df_amm.data) = 2
    /\ Len(df.data) = 1
    /\ df.index = <<0>>
    /\ df.data[1]["index"] = <<1>>

----------------------------------------------------------------------------
(* Properties of the run of get_amm *)

StageOrder ==
    { <<"start", "get_url">>,
      <<"get_url", "download_and_extract_dataframe">>,
      <<"download_and_extract_dataframe", "clean_df_amm">>,
      <<"clean_df_amm", "add_others">>,
      <<"add_others", "get_active_compound">>,
      <<"get_active_compound", "combine_products">>,
      <<"combine_products", "to_csv">> }

RunStep ==
    /\ pc' # pc => (pc' = "failed" /\ error' # "") \/ <<pc, pc'>> \in StageOrder
    /\ error' # error =>
          /\ pc' = "failed"
          /\ error' = "URLNotFoundError" => pc = "start"
          /\ error' = "FileNameNotFoundError" => pc = "get_url"
    /\ pc \in {"failed", "to_csv"} => vars' = vars
    /\ csv' # csv => csv = NaN /\ error = "" /\ <<pc, pc'>> = <<"combine_products", "to_csv">>

\* C19: a run of get_amm goes through get_url, download, clean, add_others,
\* get_active_compound, combine_products and the write in that order, each
\* once; an exception of any stage (URLNotFoundError of get_url,
\* FileNameNotFoundError of the download, or another) ends the run, after
\* which nothing happens; the file is written at most once, by the last
\* stage of a run without exception, and never in a failed run.
C19_RunOrderAndNoWriteAfterFailure ==
    /\ [](pc = "failed" => csv = NaN /\ error # "")
    /\ [](csv # NaN => pc = "to_csv" /\ error = "")
    /\ [][RunStep]_vars

C19_Witness ==
    /\ pc = "failed"
    /\ error = "FileNameNotFoundError"
    /\ amm_url # ""
    /\ csv = NaN

----------------------------------------------------------------------------
(* Properties of get_url *)

\* the anchors of the page whose href holds the marker
MarkedAnchors ==
    {i \in 1..Len(page) : ~isna(page[i]) /\ In("-utf8.zip", page[i][1])}

----------------------------------------------------------------------------
(* Properties of criterion 4 of clean_df_amm *)

\* the first three criteria of clean_df_amm, as the code evaluates them
CriteriaOneToThree(row) == IsBio(row) /\ IsVigne(row) /\ ~IsExcludedUsage(row)

\* C21: criterion 4 of clean_df_amm selects the rows whose 'etat usage'
\* contains the term 'Retrait', matched case-insensitively: among the rows
\* that pass the first three criteria, the rows of the result are those
\* whose 'etat usage' holds 'retrait' in any letter case.
C21_CriterionFourSelectsRetrait ==
    pc = "clean_df_amm" =>
        \A i \in 1..Len(df_amm.data) :
            CriteriaOneToThree(df_amm.data[i]) =>
                (Retained(df_amm.index[i])
                    <=> HoldsTerm(df_amm.data[i]["etat usage"], "Retrait"))

----------------------------------------------------------------------------
(* What the result of process_concentration depends on *)

\* the decimal digits of s, in their order
RECURSIVE DigitSequence(_)
DigitSequence(s) ==
    IF Len(s) = 0 THEN ""
    ELSE (IF In(Char(s, 1), DecimalDigits) THEN Char(s, 1) ELSE "")
         \o DigitSequence(Tail(s))

HasPercent(s) == \E i \in 1..Len(s) : Char(s, i) = "%"

\* C22: the result of process_concentration depends only on the sequence of
\* digit characters of its input and on whether the input contains '%': the
\* result equals that of every text with the same digit sequence and the
\* same '%' presence, so a decimal point is ignored ('1.25 %' and '12.5 %'
\* give the same value), ' g/' changes nothing, and '%' takes precedence
\* when both '%' and ' g/' occur.
C22_DependsOnDigitsAndPercentOnly ==
    (pc = "process_concentration" /\ ~isna(value)) =>
        LET digits == DigitSequence(value[1])
            percent == HasPercent(value[1])
        IN  /\ concentration
                  = process_concentration(S(digits \o (IF percent THEN "%" ELSE "")))
            /\ \A t \in ConcentrationExamples :
                  (percent = HasPercent(t) /\ digits = DigitSequence(t))
                      => concentration = process_concentration(S(t))
            /\ In(" g/", value[1])
                  => concentration
                        = process_concentration(S(replace(value[1], " g/", "")))

C22_Witness ==
    /\ pc = "process_concentration"
    /\ value = S("5 % 20 g/L")
    /\ concentration = <<[m |-> 52, e |-> 0]>>
    /\ process_concentration(S("1.25 %")) = process_concentration(S("12.5 %"))
    /\ process_concentration(S("1.25 %")) = <<[m |-> 125, e |-> 1]>>

----------------------------------------------------------------------------
(* The rows of the exporter's final file *)

\* the lines the exporter wrote for the block at offset, before any padding
LegacyBlockLines(offset) == SelectSeq(intrants, LAMBDA l : l.offset = offset)

\* the place of a block in a row of the final file
LegacyBlockPlace(offset) ==
    CASE offset = 0 -> 1 [] offset = 9 -> 2 [] offset = 18 -> 3
      [] offset = 27 -> 4 [] offset = 32 -> 5

----------------------------------------------------------------------------
(* The column headers of the combined table *)

\* the headers of a category block after rename_columns
RenamedHeaders(b) == rename_columns(blocks[b]).columns

\* C24: after combine_products renames the columns, the column headers
\* inside each category block are pairwise distinct, so that the reference
\* dose ('dose retenue') and the computed dose ('Dose') of a block stand
\* under different headers.
C24_BlockHeadersPairwiseDistinct ==
    Combined =>
        \A b \in BlockNames :
            \A i, j \in 1..Len(RenamedHeaders(b)) :
                i # j => RenamedHeaders(b)[i] # RenamedHeaders(b)[j]

====
